---- MODULE Spec2Model ----
(***************************************************************************)
(* Model of the set-symbol identification core of seavey-org/tcg-tracker:  *)
(* identifier/set_matcher.py (CropExtractor, SetMatcher).                  *)
(*                                                                         *)
(* Units.  Python floats are modelled in fixed point so that every         *)
(* threshold of the code is an integer:                                    *)
(*   - an L2 distance d is held in hundredths          (1.20  -> 120)      *)
(*   - a similarity / score s is held in 1/200ths      (0.40  -> 80)       *)
(*   - a confidence c is held in 1/1000ths             (0.42  -> 420)      *)
(*   - a stability is held as the pair <<agree, total>>                    *)
(* Binary floating-point rounding is not modelled.                         *)
(***************************************************************************)
EXTENDS Integers, Sequences, FiniteSets, TLC

VARIABLES
    _indexes,   \* SetMatcher._indexes: loaded game -> metadata table (row -> set_id)
    pc,         \* position of the identify call in progress
    req,        \* arguments of the identify call in progress: [game, k]
    nCrops,     \* len(crops) returned by CropExtractor().extract inside identify
    log,        \* collaborators invoked so far by the identify call in progress
    dists,      \* dists returned by loaded.index.search (crop x rank)
    idxs,       \* idxs  returned by loaded.index.search (crop x rank)
    out         \* what the identify call returned or raised

vars == <<_indexes, pc, req, nCrops, log, dists, idxs, out>>

(***************************************************************************)
(* Bounds of the model.                                                    *)
(***************************************************************************)
MaxCrops == 3       \* most crops handed to the engine in one call
MaxK == 2           \* largest k passed to identify

Games == {"pokemon", "mtg"}

\* Every game name a caller may pass, loaded or not.
GameArgs == Games

(***************************************************************************)
(* Generic helpers.                                                        *)
(***************************************************************************)
Min(a, b) == IF a < b THEN a ELSE b
Max(a, b) == IF a > b THEN a ELSE b

\* s[:n] of Python.
Take(s, n) == SubSeq(s, 1, Min(n, Len(s)))

(***************************************************************************)
(* Loaded indexes.  The FAISS index and the CLIP embedder are external;    *)
(* what the engine sees of them is the metadata table read next to the     *)
(* index file and the (dists, idxs) arrays that index.search returns.      *)
(***************************************************************************)

\* Content of <game>_meta.json: row -> set_id, row 0 first.
MetaFile(game) ==
    IF game = "pokemon" THEN <<"base1", "jungle", "base1">> ELSE <<"lea">>

\* Distances (hundredths) the index of a game may report for a real neighbor.
DistChoices(game) ==
    IF game = "pokemon" THEN {100, 120} ELSE {0, 144, 200, 300}

\* The table SetMatcher.__init__ leaves behind when exactly the games of S
\* had both of their files on disk.
LoadedTable(S) == [g \in S |-> MetaFile(g)]

IsInjective(s) == \A i, j \in DOMAIN s : s[i] = s[j] => i = j

IsAscending(s) == \A i, j \in DOMAIN s : i < j => s[i] <= s[j]

\* What loaded.index.search(embeddings, k) may return for ONE query vector:
\* min(k, ntotal) distinct rows in ascending distance order, then slots
\* with row -1 (and the largest float as distance) up to k.
PerCropResults(game, k) ==
    LET ntotal == Len(MetaFile(game))
        v == Min(k, ntotal)
    IN  { [rows |-> [j \in 1..k |-> IF j <= v THEN r[j] ELSE -1],
           ds   |-> [j \in 1..k |-> IF j <= v THEN d[j] ELSE 1000000]] :
            r \in {x \in [1..v -> 0..(ntotal - 1)] : IsInjective(x)},
            d \in {x \in [1..v -> DistChoices(game)] : IsAscending(x)} }

\* What loaded.index.search may return for a batch of n query vectors.
SearchResults(game, n, k) == [1..n -> PerCropResults(game, k)]

(***************************************************************************)
(* _cosine_from_l2_distance: cos = 1 - d/2.  d in hundredths, result in    *)
(* 1/200ths: 200 * (1 - (d/100)/2) = 200 - d.                              *)
(***************************************************************************)
OneMinusDistance(d) == 200 - 2 * d

\* return 1.0 - (d / 2.0)
_cosine_from_l2_distance(d) == 200 - d

(***************************************************************************)
(* SetMatcher._search.  per_set_best is a Python dict: a sequence of       *)
(* [set_id, score] in insertion order.                                     *)
(***************************************************************************)
HasKey(dict, sid) == \E i \in 1..Len(dict) : dict[i].set_id = sid

KeyPos(dict, sid) == CHOOSE i \in 1..Len(dict) : dict[i].set_id = sid

VisitLastWins(dict, meta, row, dist) ==
    IF row < 0 THEN dict
    ELSE LET set_id == meta[row + 1]
             score == _cosine_from_l2_distance(dist)
         IN  IF ~HasKey(dict, set_id)
             THEN Append(dict, [set_id |-> set_id, score |-> score])
             ELSE [dict EXCEPT ![KeyPos(dict, set_id)].score = score]

\* The body of the double loop for one (crop_i, j): lines 296-303.
Visit(dict, meta, row, dist) ==
    IF row < 0 THEN dict
    ELSE LET set_id == meta[row + 1]
             score == _cosine_from_l2_distance(dist)
         IN  IF ~HasKey(dict, set_id)
             THEN Append(dict, [set_id |-> set_id, score |-> score])
             ELSE IF score > dict[KeyPos(dict, set_id)].score
                  THEN [dict EXCEPT ![KeyPos(dict, set_id)].score = score]
                  ELSE dict

\* per_set_best after the first p iterations of the double loop, which
\* visits crop 1 rank 1..k, then crop 2 rank 1..k, ...
RECURSIVE PerSetBestAfter(_, _, _, _, _)
PerSetBestAfter(meta, D, I, k, p) ==
    IF p = 0 THEN <<>>
    ELSE LET crop_i == ((p - 1) \div k) + 1
             j == ((p - 1) % k) + 1
         IN  Visit(PerSetBestAfter(meta, D, I, k, p - 1), meta, I[crop_i][j], D[crop_i][j])

PerSetBest(meta, D, I, n, k) == PerSetBestAfter(meta, D, I, k, n * k)

\* One step of a stable descending sort: x goes behind every item whose
\* score is >= its own (list.sort(key=score, reverse=True) keeps the
\* original order of equal scores).
InsertByScore(sorted, x) ==
    LET before == {i \in 1..Len(sorted) : sorted[i].score >= x.score}
        pos == Cardinality(before)
    IN  SubSeq(sorted, 1, pos) \o <<x>> \o SubSeq(sorted, pos + 1, Len(sorted))

RECURSIVE SortedPrefix(_, _)
SortedPrefix(items, m) ==
    IF m = 0 THEN <<>> ELSE InsertByScore(SortedPrefix(items, m - 1), items[m])

SortByScoreAsc(items) ==
    [i \in 1..Len(items) |-> SortedPrefix(items, Len(items))[Len(items) + 1 - i]]

\* items.sort(key=lambda x: x["score"], reverse=True)
SortByScoreDesc(items) == SortedPrefix(items, Len(items))

TopKUncut(items, k) == items

\* topk = items[:k]
TopK(items, k) == Take(items, k)

\* per_crop_top: lines 309-313.
RECURSIVE PerCropTopAfter(_, _, _, _)
PerCropTopAfter(meta, I, k, m) ==
    IF m = 0 THEN <<>>
    ELSE LET prev == PerCropTopAfter(meta, I, k, m - 1)
             row == IF k > 0 THEN I[m][1] ELSE -1
         IN  IF row >= 0 THEN Append(prev, meta[row + 1]) ELSE prev

PerCropTop(meta, I, n, k) == PerCropTopAfter(meta, I, k, n)

\* _search(game, embeddings, k) given what index.search returned.
_search(meta, D, I, n, k) ==
    [topk |-> TopK(SortByScoreDesc(PerSetBest(meta, D, I, n, k)), k),
     per_crop_top |-> PerCropTop(meta, I, n, k)]

(***************************************************************************)
(* SetMatcher._confidence.  Scores in 1/200ths, confidence in 1/1000ths.   *)
(***************************************************************************)
\* Thresholds of line 331, in the units above.
MinTop1 == 56              \* 0.28 as a score
MinMargin == 6             \* 0.03 as a score difference
MinStabilityPct == 60      \* 0.60 as a percentage

\* Constants of lines 334-335.
ConfOffset == 30           \* 0.15 as a score
ConfFull == 1000           \* 1.0 as a confidence

Clamp(x, lo, hi) == Max(lo, Min(hi, x))

\* top1 = float(candidates[0]["score"])
Top1(candidates) == candidates[1].score

\* top2 = float(candidates[1]["score"]) if len(candidates) > 1 else 0.0
Top2(candidates) == IF Len(candidates) > 1 THEN candidates[2].score ELSE 0

\* margin = top1 - top2
Margin(candidates) == Top1(candidates) - Top2(candidates)

\* agree = sum(1 for s in per_crop_top if s == best_set)
Agree(per_crop_top, best_set) ==
    Cardinality({i \in 1..Len(per_crop_top) : per_crop_top[i] = best_set})

StabilityOverCandidates(candidates, per_crop_top) ==
    IF Len(per_crop_top) > 0
    THEN <<Agree(per_crop_top, candidates[1].set_id), Len(candidates)>>
    ELSE <<1, 1>>

\* stability = 1.0, or agree / len(per_crop_top) when there are votes:
\* the fraction <<numerator, denominator>>.
Stability(candidates, per_crop_top) ==
    IF Len(per_crop_top) > 0
    THEN <<Agree(per_crop_top, candidates[1].set_id), Len(per_crop_top)>>
    ELSE <<1, 1>>

LowConfInclusive(candidates, per_crop_top) ==
    LET st == Stability(candidates, per_crop_top)
    IN  \/ Top1(candidates) <= MinTop1
        \/ Margin(candidates) <= MinMargin
        \/ st[1] * 100 <= MinStabilityPct * st[2]

LowConfIgnoresMargin(candidates, per_crop_top) ==
    LET st == Stability(candidates, per_crop_top)
    IN  \/ Top1(candidates) < MinTop1
        \/ st[1] * 100 < MinStabilityPct * st[2]

\* low_conf = top1 < 0.28 or margin < 0.03 or stability < 0.60
LowConf(candidates, per_crop_top) ==
    LET st == Stability(candidates, per_crop_top)
    IN  \/ Top1(candidates) < MinTop1
        \/ Margin(candidates) < MinMargin
        \/ st[1] * 100 < MinStabilityPct * st[2]

ConfTopOnly(candidates) ==
    Max(0, Min(ConfFull, (Top1(candidates) - ConfOffset) * 6))

\* conf = max(0.0, min(1.0, (top1 - 0.15) * 1.2))
\* conf = max(conf, max(0.0, min(1.0, margin * 10.0)))
\* In 1/1000ths a score s is 5*s, so (top1 - 0.15) * 1.2 is
\* (top1 - ConfOffset) * 6 and margin * 10 is margin * 50.
Conf(candidates) ==
    LET c1 == Max(0, Min(ConfFull, (Top1(candidates) - ConfOffset) * 6))
    IN  Max(c1, Max(0, Min(ConfFull, Margin(candidates) * 50)))

ConfidentWhenEmpty(candidates, per_crop_top) ==
    IF Len(candidates) = 0
    THEN [conf |-> 0, low_conf |-> FALSE]
    ELSE [conf |-> Conf(candidates), low_conf |-> LowConf(candidates, per_crop_top)]

\* _confidence(candidates, per_crop_top) -> (conf, low_conf)
_confidence(candidates, per_crop_top) ==
    IF Len(candidates) = 0
    THEN [conf |-> 0, low_conf |-> TRUE]
    ELSE [conf |-> Conf(candidates), low_conf |-> LowConf(candidates, per_crop_top)]

(***************************************************************************)
(* SetMatcher.identify.  One call at a time; each step is one collaborator *)
(* call of the handler, in the order the code makes them.                  *)
(***************************************************************************)
NoReq == [game |-> "", k |-> 0]
NoOut == [kind |-> "none"]
NoArrays == <<>>
\* nCrops before extract has run.
NoCrops == 0 - 1

\* The dict returned at lines 240-247.
EmptyResult ==
    [kind |-> "result", best_set_id |-> "", confidence |-> 0, low_confidence |-> TRUE,
     candidates |-> <<>>, per_crop_top |-> <<>>, timings_ms |-> {"crop"}]

\* The dict built at lines 258-270 from what _search returned.
FullResult(found) ==
    LET candidates == found.topk
        best == IF Len(candidates) > 0 THEN candidates[1] ELSE [set_id |-> "", score |-> 0]
        cl == _confidence(candidates, found.per_crop_top)
    IN  [kind |-> "result", best_set_id |-> best.set_id, confidence |-> cl.conf,
         low_confidence |-> cl.low_conf, candidates |-> candidates,
         per_crop_top |-> found.per_crop_top, timings_ms |-> {"crop", "embed", "search"}]

\* if not crops: (line 239), negated.
HasCropsAlways(n) == TRUE

HasCrops(n) == n > 0

IsLoadedAnyGame(table, game) == TRUE

\* game in self._indexes (line 231)
IsLoaded(table, game) == game \in DOMAIN table

\* Lines 230-247: the guard, the extraction and the early return.
Identify(game, k) ==
    /\ pc = "idle"
    /\ req' = [game |-> game, k |-> k]
    /\ IF ~IsLoaded(_indexes, game)
       THEN /\ pc' = "raised"
            /\ out' = [kind |-> "error", error |-> "RuntimeError"]
            /\ UNCHANGED <<_indexes, nCrops, log, dists, idxs>>
       ELSE /\ \E n \in 0..MaxCrops :
                  /\ nCrops' = n
                  /\ log' = <<"extract">>
                  /\ IF ~HasCrops(n)
                     THEN pc' = "done" /\ out' = EmptyResult
                     ELSE pc' = "embed" /\ out' = out
            /\ UNCHANGED <<_indexes, dists, idxs>>

\* Line 250: embeddings = self._embed(crops)
Embed ==
    /\ pc = "embed"
    /\ log' = Append(log, "embed")
    /\ pc' = "search"
    /\ UNCHANGED <<_indexes, req, nCrops, dists, idxs, out>>

\* Lines 254-270: _search (with the index's answer), _confidence, the result.
Search ==
    /\ pc = "search"
    /\ \E res \in SearchResults(req.game, nCrops, req.k) :
          /\ dists' = [c \in 1..nCrops |-> res[c].ds]
          /\ idxs' = [c \in 1..nCrops |-> res[c].rows]
          /\ out' = FullResult(_search(_indexes[req.game], dists', idxs', nCrops, req.k))
    /\ log' = Append(log, "search")
    /\ pc' = "done"
    /\ UNCHANGED <<_indexes, req, nCrops>>

\* The call is over: the result or the exception is with the caller and the
\* call's locals are gone.
Return ==
    /\ pc \in {"done", "raised"}
    /\ pc' = "idle"
    /\ req' = NoReq
    /\ nCrops' = NoCrops
    /\ log' = <<>>
    /\ dists' = NoArrays
    /\ idxs' = NoArrays
    /\ out' = NoOut
    /\ UNCHANGED _indexes

\* State after SetMatcher(index_dir) has returned: any subset of the games
\* had both files.
Init ==
    /\ _indexes \in {LoadedTable(S) : S \in SUBSET Games}
    /\ pc = "idle"
    /\ req = NoReq
    /\ nCrops = NoCrops
    /\ log = <<>>
    /\ dists = NoArrays
    /\ idxs = NoArrays
    /\ out = NoOut

Next ==
    \/ \E game \in GameArgs, k \in 1..MaxK : Identify(game, k)
    \/ Embed
    \/ Search
    \/ Return

Spec == Init /\ [][Next]_vars

(***************************************************************************)
(* Direct calls of the pure function _confidence, on drawn arguments.      *)
(***************************************************************************)
MaxCands == 2       \* longest candidate list handed to _confidence directly
MaxVotes == 5       \* longest per_crop_top list handed to _confidence directly

\* Scores (1/200ths) of the drawn candidate lists: negative, zero, around the
\* 0.28 threshold (56), 0.03 apart (50 and 56), large.
ScoreChoices == {-100, 0, 50, 51, 55, 56, 120, 200}

VoteChoices == {"base1", "jungle"}

\* set_ids a drawn candidate list may carry at position i.
CandIdChoices(i) == IF i = 1 THEN {"base1", "jungle"} ELSE {"fossil"}

CandidateLists ==
    UNION { { c \in [1..m -> [set_id : {"base1", "jungle", "fossil"}, score : ScoreChoices]] :
                \A i \in 1..m : c[i].set_id \in CandIdChoices(i) } : m \in 0..MaxCands }

VoteLists == UNION { [1..m -> VoteChoices] : m \in 0..MaxVotes }

InitConfidence ==
    /\ _indexes = LoadedTable({})
    /\ pc = "call"
    /\ req \in [fn : {"_confidence"}, candidates : CandidateLists, per_crop_top : VoteLists]
    /\ nCrops = NoCrops
    /\ log = <<>>
    /\ dists = NoArrays
    /\ idxs = NoArrays
    /\ out = NoOut

\* conf, low_conf = self._confidence(candidates, per_crop_top)
ConfidenceCall ==
    /\ pc = "call"
    /\ out' = _confidence(req.candidates, req.per_crop_top)
    /\ pc' = "done"
    /\ UNCHANGED <<_indexes, req, nCrops, log, dists, idxs>>

NextConfidence == ConfidenceCall

SpecConfidence == InitConfidence /\ [][NextConfidence]_vars

(***************************************************************************)
(* Properties of identify, under Spec.                                     *)
(***************************************************************************)
\* The identify call in progress has got its answer from the index.
Searched == pc = "done" /\ Len(log) = 3

\* Similarities (1/200ths) of all (crop, rank) pairs of the call in progress
\* whose neighbor row maps to set sid: 1 - distance/2 each.
SeenScores(sid) ==
    { 200 - dists[c][j] : <<c, j>> \in
        { q \in (1..nCrops) \X (1..req.k) :
            /\ idxs[q[1]][q[2]] >= 0
            /\ _indexes[req.game][idxs[q[1]][q[2]] + 1] = sid } }

\* set_ids some (crop, rank) pair of the call in progress maps to.
SeenSets ==
    { _indexes[req.game][idxs[q[1]][q[2]] + 1] :
        q \in { r \in (1..nCrops) \X (1..req.k) : idxs[r[1]][r[2]] >= 0 } }

\* C1: when extract yields no crops, identify ends with best_set_id "",
\* confidence 0.0, low_confidence true and no candidates, having invoked
\* neither _embed nor _search at any point of the call.
C1_NoCropsNoEmbedNoSearch ==
    nCrops = 0 =>
        /\ pc = "done"
        /\ log = <<"extract">>
        /\ out.kind = "result"
        /\ out.best_set_id = ""
        /\ out.confidence = 0
        /\ out.low_confidence = TRUE
        /\ out.candidates = <<>>

C1_Witness == pc = "done" /\ nCrops = 0 /\ out.kind = "result"

\* C2: the score of every returned set is the maximum of 1 - distance/2 over
\* all (crop, rank) pairs of the call that map to that set: one of the seen
\* similarities and below none of them, whatever the visiting order.
C2_ScoreIsMaxOverPairs ==
    Searched =>
        \A i \in 1..Len(out.candidates) :
            LET seen == SeenScores(out.candidates[i].set_id)
            IN  /\ out.candidates[i].score \in seen
                /\ \A s \in seen : s <= out.candidates[i].score

\* A set seen by two crops with different similarities, the better one first.
C2_Witness ==
    /\ Searched
    /\ nCrops >= 2
    /\ \E i \in 1..Len(out.candidates) :
          /\ Cardinality(SeenScores(out.candidates[i].set_id)) >= 2
          /\ idxs[1][1] >= 0
          /\ _indexes[req.game][idxs[1][1] + 1] = out.candidates[i].set_id
          /\ 200 - dists[1][1] = out.candidates[i].score

\* C3: the candidate list names no set twice, is in non-increasing score
\* order, holds the k best of the sets seen (at most k entries, all sets
\* when there are fewer, none left out that beats a listed one), and
\* best_set_id is its first entry's set.
C3_CandidatesSortedTopK ==
    Searched =>
        LET cands == out.candidates
        IN  /\ \A i, j \in 1..Len(cands) : cands[i].set_id = cands[j].set_id => i = j
            /\ \A i, j \in 1..Len(cands) : i < j => cands[i].score >= cands[j].score
            /\ Len(cands) = Min(req.k, Cardinality(SeenSets))
            /\ \A i \in 1..Len(cands) : cands[i].set_id \in SeenSets
            /\ \A sid \in SeenSets \ {cands[i].set_id : i \in 1..Len(cands)} :
                  \A s \in SeenScores(sid) : \A i \in 1..Len(cands) : s <= cands[i].score
            /\ Len(cands) > 0 => out.best_set_id = cands[1].set_id

\* Two candidates of different score, the better one met later than the other.
C3_Witness ==
    /\ Searched
    /\ Len(out.candidates) = 2
    /\ out.candidates[1].score > out.candidates[2].score
    /\ _indexes[req.game][idxs[1][1] + 1] = out.candidates[2].set_id

\* Votes of the call in progress: the set of each crop's rank-0 neighbor.
RankZeroVotes == [c \in 1..nCrops |-> _indexes[req.game][idxs[c][1] + 1]]

\* The example of the specification: 3 crops, 2 nearest to base1 at 0.50
\* (distance 1.00), 1 nearest to jungle at 0.40 (distance 1.20).
TwoOfThreeExample ==
    /\ Searched
    /\ req.game = "pokemon"
    /\ req.k = 1
    /\ nCrops = 3
    /\ Cardinality({c \in 1..3 : RankZeroVotes[c] = "base1" /\ dists[c][1] = 100}) = 2
    /\ Cardinality({c \in 1..3 : RankZeroVotes[c] = "jungle" /\ dists[c][1] = 120}) = 1

\* C6: per_crop_top holds each crop's rank-0 neighbor's set; stability is
\* the fraction of crops whose vote is best_set_id, and low_confidence is
\* what the 0.28 / 0.03 / 0.60 thresholds give for it; with 2 of 3 crops on
\* base1 at 0.50 and 1 on jungle at 0.40, best_set_id is base1, stability
\* 2/3 and low_confidence false.
C6_VotesAndStability ==
    Searched =>
        LET agree == Cardinality({c \in 1..nCrops : RankZeroVotes[c] = out.best_set_id})
            cands == out.candidates
        IN  /\ (\A c \in 1..nCrops : idxs[c][1] >= 0) => out.per_crop_top = RankZeroVotes
            /\ Len(cands) > 0 =>
                  /\ Stability(cands, out.per_crop_top) = <<agree, nCrops>>
                  /\ out.low_confidence =
                        (\/ cands[1].score * 100 < 28 * 200
                         \/ (cands[1].score - (IF Len(cands) > 1 THEN cands[2].score ELSE 0)) * 100
                                < 3 * 200
                         \/ agree * 100 < 60 * nCrops)
            /\ TwoOfThreeExample =>
                  /\ out.best_set_id = "base1"
                  /\ Stability(cands, out.per_crop_top) = <<2, 3>>
                  /\ out.low_confidence = FALSE

C6_Witness == TwoOfThreeExample /\ out.best_set_id = "base1"

\* C7: identify for a game with no loaded index raises at once: nothing
\* is extracted, embedded or searched, the loaded-index table is as it
\* was, and once the error is with the caller the engine is in the very
\* state it was in before the call.
C7_NotLoadedFailsFast ==
    [][ /\ (pc = "idle" /\ pc' # "idle" /\ ~(req'.game \in DOMAIN _indexes)) =>
            /\ pc' = "raised"
            /\ out'.kind = "error"
            /\ _indexes' = _indexes
            /\ <<nCrops', log', dists', idxs'>> = <<NoCrops, <<>>, NoArrays, NoArrays>>
        /\ pc = "raised" =>
            /\ pc' = "idle"
            /\ _indexes' = _indexes
            /\ <<req', nCrops', log', dists', idxs', out'>>
                  = <<NoReq, NoCrops, <<>>, NoArrays, NoArrays, NoOut>> ]_vars

\* A failed call while the other game is loaded.
C7_Witness == pc = "raised" /\ DOMAIN _indexes # {} /\ ~(req.game \in DOMAIN _indexes)

(***************************************************************************)
(* Properties of _confidence, under SpecConfidence.                        *)
(***************************************************************************)
\* C4: for a non-empty candidate list low_confidence is true exactly when
\* top1 < 0.28 or margin < 0.03 or stability < 0.60 (top2 = 0 without a
\* second candidate, stability 1.0 without votes); at top1 = 0.28,
\* margin = 0.03 and stability = 0.60 the flag is not set.
C4_LowConfidenceThresholds ==
    (pc = "done" /\ Len(req.candidates) > 0) =>
        LET cands == req.candidates
            votes == req.per_crop_top
            top1 == cands[1].score
            top2 == IF Len(cands) > 1 THEN cands[2].score ELSE 0
            agree == Cardinality({i \in 1..Len(votes) : votes[i] = cands[1].set_id})
            weak == top1 * 100 < 28 * 200
            close == (top1 - top2) * 100 < 3 * 200
            unstable == Len(votes) > 0 /\ agree * 100 < 60 * Len(votes)
        IN  /\ out.low_conf = (weak \/ close \/ unstable)
            /\ (top1 * 100 >= 28 * 200 /\ (top1 - top2) * 100 >= 3 * 200
                    /\ agree * 100 >= 60 * Len(votes) /\ Len(votes) > 0)
                  => out.low_conf = FALSE

\* All three quantities exactly on their thresholds: 0.28, 0.03, 3 of 5.
C4_Witness ==
    /\ pc = "done"
    /\ Len(req.candidates) = 2
    /\ req.candidates[1].score = 56
    /\ req.candidates[2].score = 50
    /\ Len(req.per_crop_top) = 5
    /\ Cardinality({i \in 1..5 : req.per_crop_top[i] = req.candidates[1].set_id}) = 3
    /\ out.low_conf = FALSE

\* C5: for every top1 and margin, negative ones included, confidence is
\* max(clamp((top1 - 0.15) * 1.2, 0, 1), clamp(margin * 10, 0, 1)), hence in
\* [0, 1].  Stated in 1/10000ths: a score s is 50 * s, a confidence c 10 * c.
C5_ConfidenceFormula ==
    (pc = "done" /\ Len(req.candidates) > 0) =>
        LET cands == req.candidates
            top1 == cands[1].score
            top2 == IF Len(cands) > 1 THEN cands[2].score ELSE 0
            strength == ((50 * top1 - 1500) * 12) \div 10
            separation == 50 * (top1 - top2) * 10
        IN  /\ out.conf * 10 = Max(Clamp(strength, 0, 10000), Clamp(separation, 0, 10000))
            /\ out.conf >= 0
            /\ out.conf <= 1000

\* A negative best score whose margin over a lower runner-up decides.
C5_Witness ==
    /\ pc = "done"
    /\ Len(req.candidates) = 2
    /\ req.candidates[1].score = 0
    /\ req.candidates[2].score = -100
    /\ out.conf = 1000

(***************************************************************************)
(* CropExtractor.  A rectangle is <<x1, y1, x2, y2>>; a crop is a          *)
(* rectangle with the width and height of the pixels sliced for it.  The   *)
(* image content is seen through what cv2.findContours reports for the     *)
(* thresholded primary region: a list of contours, each with its bounding  *)
(* rectangle (x, y, w, h, relative to the region) and its contourArea.     *)
(***************************************************************************)
MaxContours == 3    \* most contours findContours reports in one region

\* (width, height) of the images handed to extract.
ImageSizes == {<<744, 1040>>, <<70, 100>>, <<10, 10>>, <<1488, 2080>>}

\* Fractions of lines 70-97, in percent, in catalog order.
PokemonFractions ==
    << <<80, 52, 96, 66>>, <<75, 48, 98, 70>>, <<78, 45, 95, 60>>,
       <<40, 92, 60, 98>>, <<35, 90, 65, 99>>, <<30, 88, 70, 98>>,
       <<75, 88, 98, 98>>, <<70, 85, 98, 99>>, <<80, 90, 96, 97>>,
       << 1, 89, 15, 97>>, << 1, 87, 35, 98>>, << 1, 90, 10, 96>>,
       <<85,  2, 98,  8>>, <<80,  1, 99, 10>>,
       << 1, 92, 20, 99>> >>

\* Fractions of lines 110-126, in percent, in catalog order.
MtgFractions ==
    << <<60, 42, 98, 58>>, <<65, 45, 95, 55>>, <<60, 35, 98, 70>>,
       <<70, 88, 98, 98>>, << 1, 90, 30, 98>>,
       <<75, 38, 99, 62>>, <<55, 40, 85, 60>>,
       <<58, 48, 92, 56>> >>

\* if game == "pokemon": ... else: ...
Fractions(game) == IF game = "pokemon" THEN PokemonFractions ELSE MtgFractions

\* (percent, n) where the double product 0.pp * n falls just short of the
\* integer pp * n / 100, so that int() truncates one lower.  Computed with
\* Python for every fraction of the catalogs and every side of ImageSizes.
FloatShortfalls == {<<58, 100>>}

\* int(0.pp * n)
IntFrac(pct, n) ==
    ((pct * n) \div 100) - (IF <<pct, n>> \in FloatShortfalls THEN 1 ELSE 0)

\* The rois list for fractions fr on a w x h image.
RoisOf(fr, w, h) ==
    [i \in 1..Len(fr) |->
        <<IntFrac(fr[i][1], w), IntFrac(fr[i][2], h), IntFrac(fr[i][3], w), IntFrac(fr[i][4], h)>>]

Rois(game, w, h) == RoisOf(Fractions(game), w, h)

\* crops.append(((x1, y1, x2, y2), warped_bgr[y1:y2, x1:x2])): a slice of
\* an (h, w) array is empty when a bound pair is not increasing.
RoiCrop(r, w, h) ==
    [box |-> r,
     cw |-> Max(0, Min(r[3], w) - Min(r[1], w)),
     ch |-> Max(0, Min(r[4], h) - Min(r[2], h))]

\* Bounds of lines 166-177 and the padding of line 180.
MinBlobArea == 250
MaxBlobArea == 25000
MinBlobSide == 12
BlobPad == 8

IsIconSizedExclusive(c) ==
    LET area == c.w * c.h
    IN  /\ ~(area <= MinBlobArea \/ area >= MaxBlobArea)
        /\ ~(c.w <= MinBlobSide \/ c.h <= MinBlobSide)
        /\ ~(c.w * 10 <= 4 * c.h \/ c.w * 10 >= 22 * c.h)
        /\ ~(c.carea * 100 <= 20 * area)

\* Lines 162-178: the contour passes every filter.  aspect = w / h against
\* 0.4 and 2.2, fill = contourArea / area against 0.20, cross-multiplied.
IsIconSized(c) ==
    LET area == c.w * c.h
    IN  /\ ~(area < MinBlobArea \/ area > MaxBlobArea)
        /\ ~(c.w < MinBlobSide \/ c.h < MinBlobSide)
        /\ ~(c.w * 10 < 4 * c.h \/ c.w * 10 > 22 * c.h)
        /\ ~(c.carea * 100 < 20 * area)

\* Lines 180-187: the padded rectangle, clamped to the region, in image
\* coordinates, with the crop sliced for it and the sort key.
Proposal(c, rw, rh, x0, y0) ==
    LET x1 == Max(0, c.x - BlobPad)
        y1 == Max(0, c.y - BlobPad)
        x2 == Min(rw, c.x + c.w + BlobPad)
        y2 == Min(rh, c.y + c.h + BlobPad)
    IN  [box |-> <<x0 + x1, y0 + y1, x0 + x2, y0 + y2>>,
         cw |-> x2 - x1, ch |-> y2 - y1, area |-> c.w * c.h]

\* The proposals list after the loop over the first m contours.
RECURSIVE ProposalsAfter(_, _, _, _, _, _)
ProposalsAfter(contours, rw, rh, x0, y0, m) ==
    IF m = 0 THEN <<>>
    ELSE LET prev == ProposalsAfter(contours, rw, rh, x0, y0, m - 1)
         IN  IF IsIconSized(contours[m])
             THEN Append(prev, Proposal(contours[m], rw, rh, x0, y0))
             ELSE prev

InsertByAreaAscending(sorted, x) ==
    LET pos == Cardinality({i \in 1..Len(sorted) : sorted[i].area <= x.area})
    IN  SubSeq(sorted, 1, pos) \o <<x>> \o SubSeq(sorted, pos + 1, Len(sorted))

\* One step of proposals.sort(key=area, reverse=True), a stable sort.
InsertByArea(sorted, x) ==
    LET pos == Cardinality({i \in 1..Len(sorted) : sorted[i].area >= x.area})
    IN  SubSeq(sorted, 1, pos) \o <<x>> \o SubSeq(sorted, pos + 1, Len(sorted))

RECURSIVE SortedByAreaPrefix(_, _)
SortedByAreaPrefix(items, m) ==
    IF m = 0 THEN <<>> ELSE InsertByArea(SortedByAreaPrefix(items, m - 1), items[m])

\* _contour_proposals(roi_bgr, roi_xy) for a non-empty region: the
\* returned (box, crop) pairs.
_contour_proposals(contours, rw, rh, x0, y0) ==
    LET sorted == SortedByAreaPrefix(ProposalsAfter(contours, rw, rh, x0, y0, Len(contours)),
                                     Len(ProposalsAfter(contours, rw, rh, x0, y0, Len(contours))))
    IN  [i \in 1..Len(sorted) |-> [box |-> sorted[i].box, cw |-> sorted[i].cw, ch |-> sorted[i].ch]]

\* Constants of lines 137 and 143.
MaxContourCrops == 6
max_crops == 10

\* cv2.cvtColor raises on an empty array.
IsEmptyCrop(c) == c.cw = 0 \/ c.ch = 0

DebugBoxSwapped(b) == [x |-> b[1], y |-> b[2], w |-> b[4] - b[2], h |-> b[3] - b[1]]

DebugBoxCorners(b) == [x |-> b[1], y |-> b[2], w |-> b[3], h |-> b[4]]

\* {"x": x1, "y": y1, "w": x2 - x1, "h": y2 - y1}
DebugBox(b) == [x |-> b[1], y |-> b[2], w |-> b[3] - b[1], h |-> b[4] - b[2]]

CappedFromEnd(crops) ==
    SubSeq(crops, Max(1, Len(crops) - max_crops + 1), Len(crops))

KeepAll(crops) == crops

\* crops[:max_crops]
Capped(crops) == Take(crops, max_crops)

\* crops after lines 128-137, for a primary region that is not empty.
AllCrops(game, w, h, contours) ==
    LET fixed == [i \in 1..Len(Rois(game, w, h)) |-> RoiCrop(Rois(game, w, h)[i], w, h)]
        primary == fixed[Len(fixed)]
    IN  fixed \o Take(_contour_proposals(contours, primary.cw, primary.ch,
                                          primary.box[1], primary.box[2]),
                      MaxContourCrops)

\* The region the contour step runs on: crops[-1] after the rois loop.
Primary(game, w, h) ==
    RoiCrop(Rois(game, w, h)[Len(Rois(game, w, h))], w, h)

\* extract(game, warped_bgr): (pil_crops, debug), or the cv2.error raised
\* by cvtColor in _contour_proposals (line 154) or in the loop (line 145).
Extracted(game, w, h, contours) ==
    IF IsEmptyCrop(Primary(game, w, h))
    THEN [kind |-> "error", error |-> "cv2.error"]
    ELSE LET kept == Capped(AllCrops(game, w, h, contours))
         IN  IF \E i \in 1..Len(kept) : IsEmptyCrop(kept[i])
             THEN [kind |-> "error", error |-> "cv2.error"]
             ELSE [kind |-> "crops",
                   crops |-> [i \in 1..Len(kept) |-> kept[i].box],
                   boxes |-> [i \in 1..Len(kept) |-> DebugBox(kept[i].box)]]

\* Shapes of the contours drawn: w, h of the bounding rectangle and the
\* contourArea.  A speck, two icon-sized blobs, a bar, a flat strip, a
\* hollow outline and an oversized blob.
ContourShapes ==
    { [w |-> 5,   h |-> 5,   carea |-> 16],
      [w |-> 12,  h |-> 30,  carea |-> 200],
      [w |-> 40,  h |-> 20,  carea |-> 700],
      [w |-> 200, h |-> 10,  carea |-> 1800],
      [w |-> 60,  h |-> 12,  carea |-> 600],
      [w |-> 30,  h |-> 30,  carea |-> 100],
      [w |-> 200, h |-> 130, carea |-> 20000] }

\* Contours findContours may report in an rw x rh region: every shape at
\* the region's origin, the icon-sized ones also inside and flush with the
\* far corner.
ContourChoices(rw, rh) ==
    { c \in [x : {0, 10, rw - 12, rw - 40}, y : {0, 9, rh - 30, rh - 20},
             w : {5, 12, 40, 200, 60, 30}, h : {5, 30, 20, 10, 12, 130},
             carea : {16, 200, 700, 1800, 600, 100, 20000}] :
        /\ [w |-> c.w, h |-> c.h, carea |-> c.carea] \in ContourShapes
        /\ c.x >= 0 /\ c.y >= 0 /\ c.x + c.w <= rw /\ c.y + c.h <= rh
        /\ \/ c.x = 0 /\ c.y = 0
           \/ /\ c.w \in {12, 40} /\ c.h \in {30, 20}
              /\ \/ c.x = 10 /\ c.y = 9
                 \/ c.x = rw - c.w /\ c.y = rh - c.h }

\* Lists of up to MaxContours different contours of one region.
ContourLists(rw, rh) ==
    UNION { { cs \in [1..m -> ContourChoices(rw, rh)] : IsInjective(cs) } : m \in 0..MaxContours }

\* A crowded region: one more icon-sized blob than line 137 keeps, 16 high
\* and 16, 17, ... wide, reported in an order that is not the order of their
\* areas, in every rotation of that order and of its reverse.
CrowdedLists(rw, rh) ==
    LET n == MaxContourCrops + 1
        blob(j) == [x |-> 0, y |-> 0, w |-> 16 + ((3 * j) % n), h |-> 16,
                    carea |-> 16 * (16 + ((3 * j) % n))]
    IN  IF 16 + n <= rw /\ 16 <= rh
        THEN { [i \in 1..n |-> blob(((i + r) % n) + 1)] : r \in 0..(n - 1) }
             \cup { [i \in 1..n |-> blob(((n - i + r) % n) + 1)] : r \in 0..(n - 1) }
        ELSE {}

InitExtract ==
    /\ _indexes = LoadedTable({})
    /\ pc = "call"
    /\ \E game \in Games, size \in ImageSizes :
          \E cs \in ContourLists(Primary(game, size[1], size[2]).cw,
                                 Primary(game, size[1], size[2]).ch)
                     \cup CrowdedLists(Primary(game, size[1], size[2]).cw,
                                       Primary(game, size[1], size[2]).ch) :
              req = [fn |-> "extract", game |-> game, w |-> size[1], h |-> size[2],
                     contours |-> cs]
    /\ nCrops = NoCrops
    /\ log = <<>>
    /\ dists = NoArrays
    /\ idxs = NoArrays
    /\ out = NoOut

\* crops, debug = CropExtractor().extract(game, warped_bgr)
ExtractCall ==
    /\ pc = "call"
    /\ out' = Extracted(req.game, req.w, req.h, req.contours)
    /\ pc' = "done"
    /\ UNCHANGED <<_indexes, req, nCrops, log, dists, idxs>>

NextExtract == ExtractCall

SpecExtract == InitExtract /\ [][NextExtract]_vars

(***************************************************************************)
(* Properties of CropExtractor.extract, under SpecExtract.                 *)
(***************************************************************************)
\* The extract call in progress has returned (not raised).
Returned == pc = "done" /\ out.kind = "crops"

\* The call in progress is on a canonical 744 x 1040 image.
Canonical == req.w = 744 /\ req.h = 1040

\* C8: extract returns at most 10 crops and at most 10 debug boxes,
\* whatever number of fixed regions and contour proposals it collected.
C8_AtMostTenCrops ==
    Returned => Len(out.crops) <= 10 /\ Len(out.boxes) <= 10

\* More than 10 candidates collected (8 fixed regions, 3 proposals), 10 kept.
C8_Witness ==
    /\ Returned
    /\ req.game = "mtg"
    /\ Len(AllCrops(req.game, req.w, req.h, req.contours)) > 10
    /\ Len(out.crops) = 10

\* C9: on a blank 744 x 1040 image (no contours) extract for pokemon
\* returns at least as many crops as the pokemon catalog has fixed
\* regions, every fixed region of the catalog among them.
C9_BlankImageKeepsEveryFixedRegion ==
    (pc = "done" /\ req.game = "pokemon" /\ Canonical /\ req.contours = <<>>) =>
        /\ out.kind = "crops"
        /\ Len(out.crops) >= Len(PokemonFractions)
        /\ \A i \in 1..Len(PokemonFractions) :
              \E j \in 1..Len(out.crops) : out.crops[j] = Rois("pokemon", 744, 1040)[i]

\* C10: on a 744 x 1040 image extract returns, and every box it reports
\* has x >= 0, y >= 0, w > 0, h > 0, x + w <= 744 and y + h <= 1040, for
\* fixed regions and adaptive proposals alike.
C10_BoxesInsideCanonicalImage ==
    (pc = "done" /\ Canonical) =>
        /\ out.kind = "crops"
        /\ \A i \in 1..Len(out.boxes) :
              LET b == out.boxes[i]
              IN  /\ b.x >= 0 /\ b.y >= 0
                  /\ b.w > 0 /\ b.h > 0
                  /\ b.x + b.w <= 744
                  /\ b.y + b.h <= 1040

\* An adaptive proposal is reported whose padding was cut at the far corner
\* of the primary region.
C10_Witness ==
    /\ Returned
    /\ Canonical
    /\ req.game = "mtg"
    /\ Len(out.boxes) > Len(MtgFractions)
    /\ LET b == out.boxes[Len(MtgFractions) + 1]
           r == Primary("mtg", 744, 1040).box
       IN  b.x + b.w = r[3] /\ b.y + b.h = r[4]

(***************************************************************************)
(* warp.py: warp_card and _order_points.  An image is its width and height *)
(* in pixels.  What cv2.findContours, cv2.approxPolyDP and cv2.contourArea *)
(* report for the picture is an input: each contour is a record            *)
(*   area      cv2.contourArea(cnt), the sort key of line 55,              *)
(*   nverts    len(approx), the vertex count of its polygon approximation, *)
(*   quad_area cv2.contourArea(approx).                                    *)
(* The text of debug["reason"] is not modelled.                            *)
(***************************************************************************)
MaxWarpContours == 2        \* longest contour list findContours reports

\* (width, height) of the photos handed to warp_card: on the two ends of
\* the card band (13/20 = 0.65, 4/5 = 0.80), inside it, just outside it,
\* square, landscape, and one pixel wide or high.
WarpSizes ==
    { <<13, 20>>, <<4, 5>>, <<400, 500>>, <<3000, 4000>>, <<129, 200>>, <<161, 200>>,
      <<500, 600>>, <<1000, 500>>, <<1, 1>>, <<1, 800>>, <<1, 801>>, <<801, 1>> }

\* The out_size arguments: the default and the one of the tests.
OutSizes == { <<744, 1040>>, <<300, 400>> }

\* Constants of lines 40, 47, 55 and 65.
CardAspectLoPct == 65
CardAspectHiPct == 80
WorkingLongSide == 800
MaxContourScan == 25
QuadAreaDivisor == 10

IsCardShapedExclusive(w, h) ==
    CardAspectLoPct * h < 100 * w /\ 100 * w < CardAspectHiPct * h

\* 0.65 <= aspect <= 0.80 with aspect = w / h (lines 36 and 40).  The
\* quotient of two integers and the literals are each the double nearest to
\* the exact ratio, so for image sides the comparison is the exact one.
IsCardShaped(w, h) ==
    CardAspectLoPct * h <= 100 * w /\ 100 * w <= CardAspectHiPct * h

\* int(side * scale) with scale = 800.0 / max(h, w) (lines 47-48).
WorkingSide(side, w, h) == (WorkingLongSide * side) \div Max(h, w)

\* cv2.resize raises cv2.error when the requested width or height is 0.
ResizeRaises(dsize) == dsize[1] <= 0 \/ dsize[2] <= 0

ResizeKeepsInputSize(w, h, dsize) == <<w, h>>

\* (width, height) of the image cv2.resize and cv2.warpPerspective return:
\* the dsize argument, whatever the size of the source image.
ResizedTo(w, h, dsize) == dsize

\* One step of sorted(contours, key=cv2.contourArea, reverse=True): stable.
InsertByContourArea(sorted, x) ==
    LET pos == Cardinality({i \in 1..Len(sorted) : sorted[i].area >= x.area})
    IN  SubSeq(sorted, 1, pos) \o <<x>> \o SubSeq(sorted, pos + 1, Len(sorted))

RECURSIVE SortedContoursPrefix(_, _)
SortedContoursPrefix(items, m) ==
    IF m = 0 THEN <<>>
    ELSE InsertByContourArea(SortedContoursPrefix(items, m - 1), items[m])

\* contours = sorted(contours, key=cv2.contourArea, reverse=True)[:25]
LargestContours(contours) ==
    Take(SortedContoursPrefix(contours, Len(contours)), MaxContourScan)

\* len(approx) == 4 and quad_area > 0.1 * image_area (lines 61-65).
IsCardQuad(c, image_area) ==
    c.nverts = 4 /\ QuadAreaDivisor * c.quad_area > image_area

\* The loop of lines 58-69: the position of the contour it breaks at, 0 when
\* it runs to the end.
FirstCardQuad(contours, image_area) ==
    IF \E i \in 1..Len(contours) : IsCardQuad(contours[i], image_area)
    THEN CHOOSE i \in 1..Len(contours) :
            /\ IsCardQuad(contours[i], image_area)
            /\ \A j \in 1..(i - 1) : ~IsCardQuad(contours[j], image_area)
    ELSE 0

\* debug as initialised at lines 27-32.
DebugStart(w, h, out_size) ==
    [found_quad |-> FALSE, input_size |-> <<w, h>>,
     out_w |-> out_size[1], out_h |-> out_size[2]]

KeyNotWritten(debug, key, value) == debug

\* debug with debug[key] = value added.
WithKey(debug, key, value) ==
    [x \in DOMAIN debug \cup {key} |-> IF x = key THEN value ELSE debug[x]]

DetectionCalls == <<"resize", "cvtColor", "GaussianBlur", "Canny", "findContours">>

\* Lines 83-100: the quad is ordered and the photo warped onto out_size.
WarpOnto(w, h, out_size, debug, calls) ==
    [kind |-> "returned", size |-> ResizedTo(w, h, out_size), debug |-> debug,
     calls |-> calls \o <<"_order_points", "getPerspectiveTransform", "warpPerspective">>]

\* warp_card(bgr, out_size) for a w x h photo whose working image has the
\* given contours: what it returns, or the error it ends in.  calls lists
\* the cv2 calls made, in order.
warp_card(w, h, out_size, found) ==
    LET debug == DebugStart(w, h, out_size)
        working == <<WorkingSide(w, w, h), WorkingSide(h, w, h)>>
        image_area == working[1] * working[2]
        contours == LargestContours(found)
        q == FirstCardQuad(contours, image_area)
    IN  IF IsCardShaped(w, h)
        THEN [kind |-> "returned", size |-> ResizedTo(w, h, out_size),
              debug |-> WithKey(debug, "fallback", "direct-resize"),
              calls |-> <<"resize">>]
        ELSE IF ResizeRaises(working)
        THEN [kind |-> "error", error |-> "cv2.error", calls |-> <<"resize">>]
        ELSE IF q > 0
        THEN WarpOnto(w, h, out_size,
                      WithKey([debug EXCEPT !.found_quad = TRUE], "quad_area_ratio",
                              <<contours[q].quad_area, image_area>>),
                      DetectionCalls)
        ELSE IF Len(contours) > 0
        THEN WarpOnto(w, h, out_size, WithKey(debug, "fallback", "minAreaRect"),
                      DetectionCalls \o <<"minAreaRect", "boxPoints">>)
        ELSE [kind |-> "returned", size |-> ResizedTo(w, h, out_size),
              debug |-> WithKey(debug, "fallback", "no-contours"),
              calls |-> DetectionCalls \o <<"resize">>]

\* What findContours and approxPolyDP can report on a working image of the
\* given area: small and large contours, approximated by triangles or
\* quadrilaterals whose area is exactly a tenth of the image, just above a
\* tenth, or half of it.
WarpContourChoices(image_area) ==
    { [area |-> a, nverts |-> n, quad_area |-> qa] :
        a \in {40, 90}, n \in {3, 4},
        qa \in {image_area \div 10, image_area \div 10 + 1, image_area \div 2} }

WarpContourLists(image_area) ==
    UNION { [1..m -> WarpContourChoices(image_area)] : m \in 0..MaxWarpContours }

InitWarp ==
    /\ _indexes = LoadedTable({})
    /\ pc = "call"
    /\ \E size \in WarpSizes, out_size \in OutSizes :
          \E cs \in WarpContourLists(WorkingSide(size[1], size[1], size[2])
                                     * WorkingSide(size[2], size[1], size[2])) :
              req = [fn |-> "warp_card", w |-> size[1], h |-> size[2],
                     out_size |-> out_size, contours |-> cs]
    /\ nCrops = NoCrops
    /\ log = <<>>
    /\ dists = NoArrays
    /\ idxs = NoArrays
    /\ out = NoOut

\* warped, debug = warp_card(bgr, out_size)
WarpCall ==
    /\ pc = "call"
    /\ out' = warp_card(req.w, req.h, req.out_size, req.contours)
    /\ pc' = "done"
    /\ UNCHANGED <<_indexes, req, nCrops, log, dists, idxs>>

NextWarp == WarpCall

SpecWarp == InitWarp /\ [][NextWarp]_vars

(***************************************************************************)
(* Properties of warp_card, under SpecWarp.                                *)
(***************************************************************************)
\* The fallback annotation of a finished call, "" when debug has none.
FallbackOf(result) ==
    IF result.kind = "returned" /\ "fallback" \in DOMAIN result.debug
    THEN result.debug.fallback
    ELSE ""

C12_ReturnedImageHasOutSize ==
    (pc = "done" /\ out.kind = "returned") =>
        /\ out.size = req.out_size
        /\ out.debug.out_w = req.out_size[1]
        /\ out.debug.out_h = req.out_size[2]

\* A photo of another size than out_size was warped onto a detected quad.
C12_Witness ==
    /\ pc = "done"
    /\ out.kind = "returned"
    /\ out.debug.found_quad = TRUE
    /\ <<req.w, req.h>> # req.out_size
    /\ req.out_size = <<300, 400>>
    /\ out.size = <<300, 400>>

\* C13: for every image with width >= 1 and height >= 1 warp_card ends by
\* returning an (image, debug) pair, never in an error.
C13_WarpNeverRaises ==
    (pc = "done" /\ req.w >= 1 /\ req.h >= 1) => out.kind = "returned"

(***************************************************************************)
(* Further properties of CropExtractor.extract, under SpecExtract.         *)
(***************************************************************************)
\* C14: for either game and every image with at least one pixel, of any
\* width and height, extract returns its crops and debug info and does not
\* end in an error.
C14_ExtractNeverRaises ==
    (pc = "done" /\ req.w >= 1 /\ req.h >= 1) => out.kind = "crops"

\* Pixels inside the rectangle (x1, y1, x2, y2).
BoxArea(b) == (b[3] - b[1]) * (b[4] - b[2])

\* C20: the one region the contour step of an extract call runs on is the
\* fixed region of largest area in the catalog of the call's game.
C20_ContourStepOnLargestRegion ==
    Returned =>
        \A i \in 1..Len(Rois(req.game, req.w, req.h)) :
            BoxArea(Primary(req.game, req.w, req.h).box)
                >= BoxArea(Rois(req.game, req.w, req.h)[i])

(***************************************************************************)
(* _order_points, called directly on four drawn points.  A point is        *)
(* <<x, y>>; the coordinates drawn are small integers, which float32 holds *)
(* exactly.                                                                *)
(***************************************************************************)
MaxCoord == 2       \* largest coordinate of a drawn point

\* The first index holding the smallest value, as np.argmin returns it.
ArgMin(vals) ==
    CHOOSE i \in 1..Len(vals) :
        /\ \A j \in 1..Len(vals) : vals[i] <= vals[j]
        /\ \A j \in 1..(i - 1) : vals[j] > vals[i]

\* The first index holding the largest value, as np.argmax returns it.
ArgMax(vals) ==
    CHOOSE i \in 1..Len(vals) :
        /\ \A j \in 1..Len(vals) : vals[i] >= vals[j]
        /\ \A j \in 1..(i - 1) : vals[j] < vals[i]

\* s = pts.sum(axis=1)
CoordSum(p) == p[1] + p[2]

CoordDiffSwapped(p) == p[1] - p[2]

\* diff = np.diff(pts, axis=1): y - x
CoordDiff(p) == p[2] - p[1]

\* _order_points(pts): rect[0], rect[1], rect[2], rect[3]
_order_points(pts) ==
    LET s == [i \in 1..Len(pts) |-> CoordSum(pts[i])]
        diff == [i \in 1..Len(pts) |-> CoordDiff(pts[i])]
    IN  <<pts[ArgMin(s)], pts[ArgMin(diff)], pts[ArgMax(s)], pts[ArgMax(diff)]>>

PointChoices == (0..MaxCoord) \X (0..MaxCoord)

InitOrder ==
    /\ _indexes = LoadedTable({})
    /\ pc = "call"
    /\ \E pts \in [1..4 -> PointChoices] : req = [fn |-> "_order_points", pts |-> pts]
    /\ nCrops = NoCrops
    /\ log = <<>>
    /\ dists = NoArrays
    /\ idxs = NoArrays
    /\ out = NoOut

\* rect = _order_points(quad)
OrderCall ==
    /\ pc = "call"
    /\ out' = [kind |-> "rect", rect |-> _order_points(req.pts)]
    /\ pc' = "done"
    /\ UNCHANGED <<_indexes, req, nCrops, log, dists, idxs>>

NextOrder == OrderCall

SpecOrder == InitOrder /\ [][NextOrder]_vars

(***************************************************************************)
(* Properties of _order_points, under SpecOrder.                           *)
(***************************************************************************)
\* The same four corners, presented starting r vertices later.
Relabeled(pts, r) == [i \in 1..4 |-> pts[((i + r - 1) % 4) + 1]]

\* C15: presenting the four input points starting from any other vertex
\* gives the identical ordered result, for every input of four different
\* points, ties in x + y or y - x included.
C15_SameResultFromAnyStartVertex ==
    (pc = "done" /\ Cardinality({req.pts[i] : i \in 1..4}) = 4) =>
        \A r \in 1..3 : _order_points(Relabeled(req.pts, r)) = out.rect

\* The input is the four corners, each once, of an axis-aligned rectangle
\* with corners (x1, y1) and (x2, y2), x1 < x2 and y1 < y2.
IsRectangleCorners(pts, x1, y1, x2, y2) ==
    /\ x1 < x2 /\ y1 < y2
    /\ {pts[i] : i \in 1..4} = {<<x1, y1>>, <<x2, y1>>, <<x2, y2>>, <<x1, y2>>}

\* C16: for the corners of an axis-aligned rectangle in any input order the
\* result is (top-left, top-right, bottom-right, bottom-left); slot 0 has
\* the least x + y, slot 2 the greatest, slot 1 the least y - x and slot 3
\* the greatest.
C16_RectangleCornersCanonical ==
    pc = "done" =>
        \A x1, x2, y1, y2 \in 0..MaxCoord :
            IsRectangleCorners(req.pts, x1, y1, x2, y2) =>
                /\ out.rect = << <<x1, y1>>, <<x2, y1>>, <<x2, y2>>, <<x1, y2>> >>
                /\ \A i \in 1..4 :
                      /\ out.rect[1][1] + out.rect[1][2] <= req.pts[i][1] + req.pts[i][2]
                      /\ out.rect[3][1] + out.rect[3][2] >= req.pts[i][1] + req.pts[i][2]
                      /\ out.rect[2][2] - out.rect[2][1] <= req.pts[i][2] - req.pts[i][1]
                      /\ out.rect[4][2] - out.rect[4][1] >= req.pts[i][2] - req.pts[i][1]

\* The corner order of the test (BR, TL, TR, BL) came out as TL, TR, BR, BL.
C16_Witness ==
    /\ pc = "done"
    /\ req.pts = << <<2, 2>>, <<0, 0>>, <<2, 0>>, <<0, 2>> >>
    /\ out.rect = << <<0, 0>>, <<2, 0>>, <<2, 2>>, <<0, 2>> >>

(***************************************************************************)
(* _cosine_from_l2_distance, called directly on rows of drawn distances    *)
(* (hundredths): zero, the smallest step, around 1.0 and 2.0, and beyond.  *)
(***************************************************************************)
MaxRow == 2         \* longest row of distances converted directly

DistanceChoices == {0, 1, 50, 100, 144, 199, 200, 201, 300, 400}

DistanceRows == UNION { [1..m -> DistanceChoices] : m \in 1..MaxRow }

InitCosine ==
    /\ _indexes = LoadedTable({})
    /\ pc = "call"
    /\ \E row \in DistanceRows : req = [fn |-> "_cosine_from_l2_distance", d |-> row]
    /\ nCrops = NoCrops
    /\ log = <<>>
    /\ dists = NoArrays
    /\ idxs = NoArrays
    /\ out = NoOut

\* score = _cosine_from_l2_distance(float(dists[crop_i, j])), slot by slot
CosineCall ==
    /\ pc = "call"
    /\ out' = [kind |-> "scores",
               scores |-> [j \in 1..Len(req.d) |-> _cosine_from_l2_distance(req.d[j])]]
    /\ pc' = "done"
    /\ UNCHANGED <<_indexes, req, nCrops, log, dists, idxs>>

NextCosine == CosineCall

SpecCosine == InitCosine /\ [][NextCosine]_vars

\* C17: the similarity of a distance d is 1 - d/2: distance 0 gives 1.0,
\* distance 2.0 gives 0.0, a larger distance gives a strictly smaller
\* similarity, and a row in ascending distance order has non-increasing
\* similarities.  (d in hundredths, similarity in 1/200ths.)
C17_SimilarityIsOneMinusHalfDistance ==
    pc = "done" =>
        /\ \A j \in 1..Len(req.d) :
              /\ 100 * out.scores[j] = 100 * 200 - 100 * req.d[j]
              /\ req.d[j] = 0 => out.scores[j] = 200
              /\ req.d[j] = 200 => out.scores[j] = 0
        /\ \A i, j \in 1..Len(req.d) :
              req.d[i] < req.d[j] => out.scores[i] > out.scores[j]
        /\ IsAscending(req.d) =>
              \A i, j \in 1..Len(req.d) : i < j => out.scores[i] >= out.scores[j]

\* The row (0, 2.0) was converted to (1.0, 0.0).
C17_Witness ==
    /\ pc = "done"
    /\ req.d = <<0, 200>>
    /\ out.scores = <<200, 0>>

(***************************************************************************)
(* SetMatcher.__init__ and _try_load, step by step, followed by identify   *)
(* calls on the constructed object.  The index directory is an input: the  *)
(* files it holds and, of those, the ones that cannot be parsed.  During   *)
(* construction req holds the arguments and the loop position, and log the *)
(* file reads made so far.                                                 *)
(***************************************************************************)
\* for game in ("pokemon", "mtg") (line 210)
GameOrder == <<"pokemon", "mtg">>

\* os.path.join(self.index_dir, f"{game}.faiss") and f"{game}_meta.json"
faiss_path(game) == <<game, ".faiss">>
meta_path(game) == <<game, "_meta.json">>

IndexFiles == {faiss_path(g) : g \in Games} \cup {meta_path(g) : g \in Games}

\* The index_dir arguments: none, and a directory.
IndexDirs == {"", "indexes"}

EitherFileExists(files, game) ==
    faiss_path(game) \in files \/ meta_path(game) \in files

\* not (not exists(faiss_path) or not exists(meta_path)) (line 219)
BothFilesExist(files, game) ==
    faiss_path(game) \in files /\ meta_path(game) \in files

\* faiss.read_index and open/json.load raise on a file that is missing or
\* cannot be parsed.
ReadRaises(req_, path) == path \notin req_.files \/ path \in req_.corrupt

\* self._indexes[game] = LoadedIndex(index=index, meta=meta)
Registered(table, game) ==
    [g \in DOMAIN table \cup {game} |-> IF g = game THEN MetaFile(game) ELSE table[g]]

ConstructionPcs == {"new", "loop", "exists", "read_index", "json.load", "register"}

InitLoad ==
    /\ _indexes = LoadedTable({})
    /\ pc = "new"
    /\ \E dir \in IndexDirs, files \in SUBSET IndexFiles :
          \E corrupt \in SUBSET files :
              req = [fn |-> "__init__", index_dir |-> dir, files |-> files,
                     corrupt |-> corrupt, i |-> 0]
    /\ nCrops = NoCrops
    /\ log = <<>>
    /\ dists = NoArrays
    /\ idxs = NoArrays
    /\ out = NoOut

\* Lines 194-209: self._indexes = {} and the test of index_dir.
NewSetMatcher ==
    /\ pc = "new"
    /\ _indexes' = LoadedTable({})
    /\ req' = [req EXCEPT !.i = IF req.index_dir # "" THEN 1 ELSE Len(GameOrder) + 1]
    /\ pc' = "loop"
    /\ UNCHANGED <<nCrops, log, dists, idxs, out>>

\* Line 210: the next game of the loop, or the end of __init__: the object
\* is handed to the caller and the locals of the constructor are gone.
NextGame ==
    /\ pc = "loop"
    /\ IF req.i <= Len(GameOrder)
       THEN pc' = "exists" /\ UNCHANGED <<req, log>>
       ELSE pc' = "idle" /\ req' = NoReq /\ log' = <<>>
    /\ UNCHANGED <<_indexes, nCrops, dists, idxs, out>>

\* Lines 217-220: _try_load returns when a file of the game is missing.
FilesExist ==
    /\ pc = "exists"
    /\ IF BothFilesExist(req.files, GameOrder[req.i])
       THEN pc' = "read_index" /\ req' = req
       ELSE pc' = "loop" /\ req' = [req EXCEPT !.i = req.i + 1]
    /\ UNCHANGED <<_indexes, nCrops, log, dists, idxs, out>>

\* Line 224: index = faiss.read_index(faiss_path)
ReadIndex ==
    /\ pc = "read_index"
    /\ IF ReadRaises(req, faiss_path(GameOrder[req.i]))
       THEN /\ pc' = "failed"
            /\ out' = [kind |-> "error", error |-> "RuntimeError"]
            /\ log' = log
       ELSE /\ pc' = "json.load"
            /\ out' = out
            /\ log' = Append(log, <<"read_index", GameOrder[req.i]>>)
    /\ UNCHANGED <<_indexes, req, nCrops, dists, idxs>>

\* Lines 225-226: meta = json.load(f)
LoadMeta ==
    /\ pc = "json.load"
    /\ IF ReadRaises(req, meta_path(GameOrder[req.i]))
       THEN /\ pc' = "failed"
            /\ out' = [kind |-> "error", error |-> "JSONDecodeError"]
            /\ log' = log
       ELSE /\ pc' = "register"
            /\ out' = out
            /\ log' = Append(log, <<"json.load", GameOrder[req.i]>>)
    /\ UNCHANGED <<_indexes, req, nCrops, dists, idxs>>

\* Line 228: the game is entered into the table; _try_load returns.
Register ==
    /\ pc = "register"
    /\ _indexes' = Registered(_indexes, GameOrder[req.i])
    /\ req' = [req EXCEPT !.i = req.i + 1]
    /\ pc' = "loop"
    /\ UNCHANGED <<nCrops, log, dists, idxs, out>>

NextLoad ==
    \/ NewSetMatcher
    \/ NextGame
    \/ FilesExist
    \/ ReadIndex
    \/ LoadMeta
    \/ Register
    \/ \E game \in GameArgs : Identify(game, 1)
    \/ Embed
    \/ Search
    \/ Return

SpecLoad == InitLoad /\ [][NextLoad]_vars

\* C19: the loaded-index table is written only by the loading steps of the
\* constructor: a game is entered only by the register step, after both of
\* its files were read; a game with a missing file is skipped and the table
\* left alone; the constructor ends with exactly the games that had both
\* files; and identify runs only on the finished object, accepting a call
\* only for a game whose load has completed.
C19_LoadingIsTheOnlyWriter ==
    [][ /\ _indexes' # _indexes =>
              /\ pc = "register"
              /\ DOMAIN _indexes' = DOMAIN _indexes \cup {GameOrder[req.i]}
              /\ \A g \in DOMAIN _indexes : _indexes'[g] = _indexes[g]
              /\ \E a, b \in 1..Len(log) :
                    /\ log[a] = <<"read_index", GameOrder[req.i]>>
                    /\ log[b] = <<"json.load", GameOrder[req.i]>>
        /\ ( /\ pc = "exists"
             /\ \/ <<GameOrder[req.i], ".faiss">> \notin req.files
                \/ <<GameOrder[req.i], "_meta.json">> \notin req.files ) =>
              /\ pc' = "loop"
              /\ _indexes' = _indexes
        /\ (pc = "loop" /\ pc' = "idle") =>
              \A g \in Games :
                  g \in DOMAIN _indexes' =>
                      <<g, ".faiss">> \in req.files /\ <<g, "_meta.json">> \in req.files
        /\ pc \in ConstructionPcs => pc' \in ConstructionPcs \cup {"idle", "failed"}
        /\ (pc = "idle" /\ pc' \in {"embed", "done"}) => req'.game \in DOMAIN _indexes
      ]_vars

\* The constructor has loaded pokemon after reading both of its files and
\* skipped mtg, whose metadata file is missing.
C19_Witness ==
    /\ pc = "loop"
    /\ req.i = 3
    /\ DOMAIN _indexes = {"pokemon"}
    /\ log = << <<"read_index", "pokemon">>, <<"json.load", "pokemon">> >>
    /\ <<"mtg", ".faiss">> \in req.files
    /\ <<"mtg", "_meta.json">> \notin req.files

(***************************************************************************)
(* Concurrent identify calls on one SetMatcher.  Each variable of a call   *)
(* (pc, req, nCrops, log, dists, idxs, out) is a function of the thread    *)
(* making the call; _indexes is the one table all calls read.  A call's    *)
(* image decides what the extractor, the embedder and the index return for *)
(* it: req[t].answer is the index's answer to the call's embeddings.       *)
(* _search is split at its one call of a collaborator, the index query.    *)
(***************************************************************************)
Threads == {"t1", "t2"}

\* Numbers of crops the extractor returns to the concurrent calls.
ConcurrentCrops == {0, 1}

SharedFrame(t) == "t1"

\* crops, embeddings, dists, idxs, per_set_best, ... are local variables:
\* each call reads and writes the ones of its own frame.
CallFrame(t) == t

InitConcurrent ==
    /\ _indexes \in {LoadedTable(S) : S \in SUBSET Games}
    /\ pc = [t \in Threads |-> "idle"]
    /\ req = [t \in Threads |-> NoReq]
    /\ nCrops = [t \in Threads |-> NoCrops]
    /\ log = [t \in Threads |-> <<>>]
    /\ dists = [t \in Threads |-> NoArrays]
    /\ idxs = [t \in Threads |-> NoArrays]
    /\ out = [t \in Threads |-> NoOut]

\* Lines 230-247 in thread t.
TIdentify(t, game, k) ==
    /\ pc[t] = "idle"
    /\ IF ~IsLoaded(_indexes, game)
       THEN /\ req' = [req EXCEPT ![t] = [game |-> game, k |-> k, answer |-> <<>>]]
            /\ pc' = [pc EXCEPT ![t] = "raised"]
            /\ out' = [out EXCEPT ![t] = [kind |-> "error", error |-> "RuntimeError"]]
            /\ UNCHANGED <<nCrops, log>>
       ELSE /\ \E n \in ConcurrentCrops :
                  /\ \E answer \in SearchResults(game, n, k) :
                        req' = [req EXCEPT ![t] = [game |-> game, k |-> k, answer |-> answer]]
                  /\ nCrops' = [nCrops EXCEPT ![t] = n]
                  /\ log' = [log EXCEPT ![t] = <<"extract">>]
                  /\ IF ~HasCrops(n)
                     THEN /\ pc' = [pc EXCEPT ![t] = "done"]
                          /\ out' = [out EXCEPT ![t] = EmptyResult]
                     ELSE /\ pc' = [pc EXCEPT ![t] = "embed"]
                          /\ out' = out
    /\ UNCHANGED <<_indexes, dists, idxs>>

\* Line 250 in thread t.
TEmbed(t) ==
    /\ pc[t] = "embed"
    /\ log' = [log EXCEPT ![t] = Append(log[t], "embed")]
    /\ pc' = [pc EXCEPT ![t] = "search"]
    /\ UNCHANGED <<_indexes, req, nCrops, dists, idxs, out>>

\* Lines 288-291 in thread t: dists, idxs = loaded.index.search(embeddings, k)
TQuery(t) ==
    /\ pc[t] = "search"
    /\ dists' = [dists EXCEPT ![CallFrame(t)] = [c \in 1..nCrops[t] |-> req[t].answer[c].ds]]
    /\ idxs' = [idxs EXCEPT ![CallFrame(t)] = [c \in 1..nCrops[t] |-> req[t].answer[c].rows]]
    /\ pc' = [pc EXCEPT ![t] = "aggregate"]
    /\ UNCHANGED <<_indexes, req, nCrops, log, out>>

\* Lines 293-315 and 256-270 in thread t: the loops over idxs.shape[0] rows
\* and idxs.shape[1] columns, _confidence and the result.
TAggregate(t) ==
    /\ pc[t] = "aggregate"
    /\ LET D == dists[CallFrame(t)]
           I == idxs[CallFrame(t)]
           cols == IF Len(I) > 0 THEN Len(I[1]) ELSE 0
       IN  out' = [out EXCEPT ![t] =
                      FullResult(_search(_indexes[req[t].game], D, I, Len(I), cols))]
    /\ log' = [log EXCEPT ![t] = Append(log[t], "search")]
    /\ pc' = [pc EXCEPT ![t] = "done"]
    /\ UNCHANGED <<_indexes, req, nCrops, dists, idxs>>

\* The call of thread t is over and its frame is gone.
TReturn(t) ==
    /\ pc[t] \in {"done", "raised"}
    /\ pc' = [pc EXCEPT ![t] = "idle"]
    /\ req' = [req EXCEPT ![t] = NoReq]
    /\ nCrops' = [nCrops EXCEPT ![t] = NoCrops]
    /\ log' = [log EXCEPT ![t] = <<>>]
    /\ dists' = [dists EXCEPT ![CallFrame(t)] = NoArrays]
    /\ idxs' = [idxs EXCEPT ![CallFrame(t)] = NoArrays]
    /\ out' = [out EXCEPT ![t] = NoOut]
    /\ UNCHANGED _indexes

NextConcurrent ==
    \E t \in Threads :
        \/ \E game \in GameArgs, k \in 1..MaxK : TIdentify(t, game, k)
        \/ TEmbed(t)
        \/ TQuery(t)
        \/ TAggregate(t)
        \/ TReturn(t)

SpecConcurrent == InitConcurrent /\ [][NextConcurrent]_vars

\* What the call r returns when it is the only call running on the table:
\* the outcome of the steps Identify, Embed, Search of the one-call model.
AloneResult(table, r, n) ==
    IF ~(r.game \in DOMAIN table) THEN [kind |-> "error", error |-> "RuntimeError"]
    ELSE IF n = 0 THEN EmptyResult
    ELSE FullResult(_search(table[r.game],
                            [c \in 1..n |-> r.answer[c].ds],
                            [c \in 1..n |-> r.answer[c].rows], n, r.k))

\* C18: in every interleaving of identify calls of two threads no step
\* changes the loaded-index table, each call aggregates the neighbours the
\* index returned for its own crops, and each call ends with the
\* best_set_id, confidence, low_confidence and candidates (or the error) of
\* the same call run alone.
C18_ConcurrentCallsIndependent ==
    [][ /\ _indexes' = _indexes
        /\ \A t \in Threads :
              /\ (pc[t] = "search" /\ pc'[t] = "aggregate") =>
                    /\ dists'[t] = [c \in 1..nCrops[t] |-> req[t].answer[c].ds]
                    /\ idxs'[t] = [c \in 1..nCrops[t] |-> req[t].answer[c].rows]
              /\ (pc[t] # pc'[t] /\ pc'[t] \in {"done", "raised"}) =>
                    LET alone == AloneResult(_indexes, req'[t], nCrops'[t])
                    IN  /\ out'[t].kind = alone.kind
                        /\ alone.kind = "result" =>
                              /\ out'[t].best_set_id = alone.best_set_id
                              /\ out'[t].confidence = alone.confidence
                              /\ out'[t].low_confidence = alone.low_confidence
                              /\ out'[t].candidates = alone.candidates
      ]_vars

\* Both threads have finished calls for pokemon that overlapped, with
\* different best sets.
C18_Witness ==
    /\ pc["t1"] = "done" /\ pc["t2"] = "done"
    /\ log["t1"] = <<"extract", "embed", "search">>
    /\ log["t2"] = <<"extract", "embed", "search">>
    /\ req["t1"].game = "pokemon" /\ req["t2"].game = "pokemon"
    /\ out["t1"].best_set_id = "base1"
    /\ out["t2"].best_set_id = "jungle"

(***************************************************************************)
(* _contour_proposals, called directly on a 200 x 200 region (the region   *)
(* of the tests) in which findContours reports the drawn blobs.  The blobs *)
(* drawn sit on and next to every bound of the filter.                     *)
(***************************************************************************)
MaxBlobs == 1       \* most blobs in the region of a direct call

\* Bounding rectangles w x h at the region's origin, with a contour area of
\* a fifth of the rectangle (rounded up), one less, or all of it.
BlobChoices ==
    UNION { { [x |-> 0, y |-> 0, w |-> bw, h |-> bh, carea |-> ca] :
                ca \in { (bw * bh + 4) \div 5, ((bw * bh + 4) \div 5) - 1, bw * bh } } :
            bw \in {5, 11, 12, 33, 34, 125, 126, 200},
            bh \in {5, 10, 12, 15, 20, 21, 30, 31, 200} }

BlobLists == UNION { [1..m -> BlobChoices] : m \in 0..MaxBlobs }

InitProposals ==
    /\ _indexes = LoadedTable({})
    /\ pc = "call"
    /\ \E cs \in BlobLists : req = [fn |-> "_contour_proposals", contours |-> cs]
    /\ nCrops = NoCrops
    /\ log = <<>>
    /\ dists = NoArrays
    /\ idxs = NoArrays
    /\ out = NoOut

\* proposals = self.extractor._contour_proposals(roi, (0, 0, 200, 200))
ProposalsCall ==
    /\ pc = "call"
    /\ out' = [kind |-> "proposals",
               proposals |-> _contour_proposals(req.contours, 200, 200, 0, 0)]
    /\ pc' = "done"
    /\ UNCHANGED <<_indexes, req, nCrops, log, dists, idxs>>

NextProposals == ProposalsCall

SpecProposals == InitProposals /\ [][NextProposals]_vars

\* The blob has bounding-box area in [250, 25000], both sides >= 12,
\* w / h in [0.4, 2.2] and contour area / box area >= 0.20.
PassesStatedFilter(c) ==
    /\ 250 <= c.w * c.h /\ c.w * c.h <= 25000
    /\ c.w >= 12 /\ c.h >= 12
    /\ 4 * c.h <= 10 * c.w /\ 10 * c.w <= 22 * c.h
    /\ 5 * c.carea >= c.w * c.h

\* C21: a contour yields a proposal exactly when its bounding box has area
\* in [250, 25000], sides >= 12, aspect in [0.4, 2.2] and fill >= 0.20, all
\* bounds included: the proposals returned are as many as the blobs that
\* pass, so a lone 200 x 10 blob and a lone 5 x 5 blob give none.
C21_ProposalIffIconSized ==
    pc = "done" =>
        /\ Len(out.proposals)
              = Cardinality({i \in 1..Len(req.contours) : PassesStatedFilter(req.contours[i])})
        /\ ( /\ Len(req.contours) = 1
             /\ <<req.contours[1].w, req.contours[1].h>> \in {<<200, 10>>, <<5, 5>>} ) =>
                out.proposals = <<>>

\* A lone 12 x 30 blob (aspect exactly 0.4) filled to exactly a fifth was
\* kept.
C21_Witness ==
    /\ pc = "done"
    /\ Len(req.contours) = 1
    /\ req.contours[1].w = 12 /\ req.contours[1].h = 30 /\ req.contours[1].carea = 72
    /\ Len(out.proposals) = 1

(***************************************************************************)
(* The candidate list of extract (crops before the cap), under SpecExtract.*)
(***************************************************************************)
\* Blobs of the call in progress that pass the filter of lines 166-177.
PassingBlobs ==
    {i \in 1..Len(req.contours) : PassesStatedFilter(req.contours[i])}

\* Place of blob i among the passing blobs by bounding-box area, largest
\* first, blobs of equal area in the order findContours reported them.
AreaRank(i) ==
    LET a(j) == req.contours[j].w * req.contours[j].h
    IN  1 + Cardinality({j \in PassingBlobs : a(j) > a(i) \/ (a(j) = a(i) /\ j < i)})

\* C22: the candidate list of extract is the fixed regions in catalog
\* order, then the adaptive proposals by non-increasing bounding-box area,
\* only the 6 largest of them, all of this before the cap of 10: a proposal
\* never precedes a fixed region and never displaces a larger one.
C22_FixedThenSixLargestProposals ==
    Returned =>
        LET fixed == Rois(req.game, req.w, req.h)
            cand == AllCrops(req.game, req.w, req.h, req.contours)
            region == Primary(req.game, req.w, req.h)
        IN  /\ Len(cand) = Len(fixed) + Min(6, Cardinality(PassingBlobs))
            /\ \A i \in 1..Len(fixed) : cand[i].box = fixed[i]
            /\ \A i \in PassingBlobs :
                  AreaRank(i) <= 6 =>
                      cand[Len(fixed) + AreaRank(i)].box
                          = Proposal(req.contours[i], region.cw, region.ch,
                                     region.box[1], region.box[2]).box
            /\ \A i \in 1..Min(10, Len(cand)) : out.crops[i] = cand[i].box

\* Seven blobs passed the filter of an mtg call: the candidate list had the
\* 8 fixed regions and the 6 largest proposals, the 16-wide blob left out.
C22_Witness ==
    /\ Returned
    /\ req.game = "mtg"
    /\ Cardinality(PassingBlobs) = 7
    /\ Len(AllCrops(req.game, req.w, req.h, req.contours)) = 14
    /\ req.contours[1].w # 22
    /\ Len(out.crops) = 10

\* C23: debug["boxes"] has one entry per returned crop, in the order of
\* the crops, each (x, y, w, h) = (x1, y1, x2 - x1, y2 - y1) of its crop's
\* rectangle; both lists stop where the cap cut the candidate list.
C23_OneDebugBoxPerCrop ==
    Returned =>
        LET cand == AllCrops(req.game, req.w, req.h, req.contours)
        IN  /\ Len(out.boxes) = Len(out.crops)
            /\ Len(out.crops) = Min(10, Len(cand))
            /\ \A i \in 1..Len(out.crops) :
                  /\ out.crops[i] = cand[i].box
                  /\ out.boxes[i].x = out.crops[i][1]
                  /\ out.boxes[i].y = out.crops[i][2]
                  /\ out.boxes[i].w = out.crops[i][3] - out.crops[i][1]
                  /\ out.boxes[i].h = out.crops[i][4] - out.crops[i][2]

\* A pokemon call on a 744 x 1040 image returned 10 crops and 10 boxes of
\* its 15 candidates, the tenth box that of the tenth fixed region.
C23_Witness ==
    /\ Returned
    /\ Canonical
    /\ req.game = "pokemon"
    /\ Len(AllCrops(req.game, req.w, req.h, req.contours)) >= 15
    /\ Len(out.boxes) = 10
    /\ out.boxes[10] = [x |-> 7, y |-> 925, w |-> 104, h |-> 83]

GeneralPathReturned ==
    /\ pc = "done"
    /\ out.kind = "returned"
    /\ ~(65 * req.h <= 100 * req.w /\ 100 * req.w <= 80 * req.h)

\* Pixels of the working image of the call in progress.
WorkingArea ==
    ((800 * req.w) \div Max(req.h, req.w)) * ((800 * req.h) \div Max(req.h, req.w))

\* C24: on the general path the contours are taken by non-increasing area,
\* the 25 largest only, and the quad chosen is the first whose
\* approximation has 4 vertices and encloses at least 10% of the working
\* image, exactly 10% included; smaller 4-vertex polygons are passed over.
C24_FirstQuadOfAtLeastTenPercent ==
    GeneralPathReturned =>
        LET sorted == LargestContours(req.contours)
            gate(i) == sorted[i].nverts = 4 /\ 10 * sorted[i].quad_area >= WorkingArea
        IN  IF \E i \in 1..Len(sorted) : gate(i)
            THEN LET first == CHOOSE i \in 1..Len(sorted) :
                                 gate(i) /\ \A j \in 1..(i - 1) : ~gate(j)
                 IN  /\ out.debug.found_quad = TRUE
                     /\ out.debug.quad_area_ratio = <<sorted[first].quad_area, WorkingArea>>
            ELSE out.debug.found_quad = FALSE

Cross(a, b, c) == (b[1] - a[1]) * (c[2] - b[2]) - (b[2] - a[2]) * (c[1] - b[1])

\* The four points, taken in input order, are the corners of a convex
\* quadrilateral: the boundary turns the same way at every corner.
IsConvexQuad(pts) ==
    LET turn(i) == Cross(pts[i], pts[(i % 4) + 1], pts[((i + 1) % 4) + 1])
    IN  (\A i \in 1..4 : turn(i) > 0) \/ (\A i \in 1..4 : turn(i) < 0)

\* C26: for four distinct points that form a convex quadrilateral, diamonds
\* included, the result of _order_points is a permutation of the input:
\* every input corner fills exactly one of the four slots.
C26_ResultIsPermutationOfCorners ==
    (pc = "done" /\ Cardinality({req.pts[i] : i \in 1..4}) = 4 /\ IsConvexQuad(req.pts)) =>
        \A i \in 1..4 : Cardinality({s \in 1..4 : out.rect[s] = req.pts[i]}) = 1

(***************************************************************************)
(* The search step of identify (lines 254-270) on drawn index contents:    *)
(* an index of three rows of three different sets, an index of one row,   *)
(* which leaves the slots after the first at row -1, and an empty index,   *)
(* which answers every query with row -1 in every slot.                    *)
(***************************************************************************)
MaxSearchCrops == 2     \* most crops of a direct search call

SearchMetas == { <<"base1", "jungle", "fossil">>, <<"lea">>, <<>> }

\* What index.search may return for one query vector on an index of ntotal
\* rows: as PerCropResults, with distances 1.00 and 1.20.
NeighborLists(ntotal, k) ==
    LET v == Min(k, ntotal)
    IN  { [rows |-> [j \in 1..k |-> IF j <= v THEN r[j] ELSE -1],
           ds   |-> [j \in 1..k |-> IF j <= v THEN d[j] ELSE 1000000]] :
            r \in {x \in [1..v -> 0..(ntotal - 1)] : IsInjective(x)},
            d \in {x \in [1..v -> {100, 120}] : IsAscending(x)} }

InitSearch ==
    /\ _indexes = LoadedTable({})
    /\ pc = "call"
    /\ \E meta \in SearchMetas, n \in 1..MaxSearchCrops, k \in 1..MaxK :
          \E res \in [1..n -> NeighborLists(Len(meta), k)] :
              req = [fn |-> "_search", meta |-> meta, n |-> n, k |-> k,
                     D |-> [c \in 1..n |-> res[c].ds],
                     I |-> [c \in 1..n |-> res[c].rows]]
    /\ nCrops = NoCrops
    /\ log = <<>>
    /\ dists = NoArrays
    /\ idxs = NoArrays
    /\ out = NoOut

\* candidates, per_crop_top = self._search(game, embeddings, k=k) and the
\* result built from them.
SearchCall ==
    /\ pc = "call"
    /\ out' = FullResult(_search(req.meta, req.D, req.I, req.n, req.k))
    /\ pc' = "done"
    /\ UNCHANGED <<_indexes, req, nCrops, log, dists, idxs>>

NextSearch == SearchCall

SpecSearch == InitSearch /\ [][NextSearch]_vars

(***************************************************************************)
(* Properties of the search step, under SpecSearch.                        *)
(***************************************************************************)
\* (crop, rank) slots of the answer that hold a neighbour.
FilledSlots ==
    {s \in (1..req.n) \X (1..req.k) : req.I[s[1]][s[2]] >= 0}

\* The set of the neighbour in slot s, and its distance.
SlotSet(s) == req.meta[req.I[s[1]][s[2]] + 1]
SlotDist(s) == req.D[s[1]][s[2]]

\* Sets that have a neighbour at the least distance of the whole answer.
SetsAtLeastDistance ==
    {SlotSet(s) : s \in {x \in FilledSlots : \A y \in FilledSlots : SlotDist(x) <= SlotDist(y)}}

\* C27 as stated: when the neighbours come in ascending distance order and
\* there are candidates, best_set_id is the rank-0 vote of some crop and
\* stability is above 0, also when sets tie for the highest score.
C27_BestSetHasAVote ==
    (pc = "done" /\ Len(out.candidates) > 0) =>
        /\ \E c \in 1..Len(out.per_crop_top) : out.per_crop_top[c] = out.best_set_id
        /\ Stability(out.candidates, out.per_crop_top)[1] > 0

\* C27 amended: when the neighbours come in ascending distance order, there
\* are candidates and one set alone has the highest aggregated score,
\* best_set_id is the rank-0 vote of some crop and stability is above 0.
C27_BestSetHasAVoteUnlessTied ==
    (pc = "done" /\ Len(out.candidates) > 0 /\ Cardinality(SetsAtLeastDistance) = 1) =>
        /\ \E c \in 1..Len(out.per_crop_top) : out.per_crop_top[c] = out.best_set_id
        /\ Stability(out.candidates, out.per_crop_top)[1] > 0

\* Two crops, the best set alone at distance 1.00 at rank 0 of the second
\* crop only: it has one of the two votes.
C27_Witness ==
    /\ pc = "done"
    /\ req.n = 2 /\ req.k = 2
    /\ Cardinality(SetsAtLeastDistance) = 1
    /\ out.best_set_id = "fossil"
    /\ out.per_crop_top = <<"base1", "fossil">>
    /\ Stability(out.candidates, out.per_crop_top) = <<1, 2>>

\* C30: a slot with a negative row adds nothing to the per-set scores and
\* nothing to the per-crop votes: the candidates are the sets of the filled
\* slots, each with the best score of its filled slots, and the votes are
\* those of the crops whose first slot is filled; when no slot is filled the
\* result has best_set_id "", no candidates, confidence 0.0 and
\* low_confidence true.
C30_NegativeRowsContributeNothing ==
    pc = "done" =>
        /\ out.kind = "result"
        /\ Len(out.candidates) = Min(req.k, Cardinality({SlotSet(s) : s \in FilledSlots}))
        /\ \A i \in 1..Len(out.candidates) :
              /\ \E s \in FilledSlots :
                    /\ SlotSet(s) = out.candidates[i].set_id
                    /\ 200 - SlotDist(s) = out.candidates[i].score
              /\ \A s \in FilledSlots :
                    SlotSet(s) = out.candidates[i].set_id =>
                        200 - SlotDist(s) <= out.candidates[i].score
        /\ Len(out.per_crop_top) = Cardinality({c \in 1..req.n : req.I[c][1] >= 0})
        /\ \A c \in 1..req.n :
              req.I[c][1] >= 0 =>
                  out.per_crop_top[Cardinality({b \in 1..c : req.I[b][1] >= 0})]
                      = req.meta[req.I[c][1] + 1]
        /\ FilledSlots = {} =>
              /\ out.best_set_id = ""
              /\ out.candidates = <<>>
              /\ out.confidence = 0
              /\ out.low_confidence = TRUE

\* Two crops were searched in an empty index: every row came back negative
\* and the result is the empty, low-confidence one.
C30_Witness ==
    /\ pc = "done"
    /\ req.n = 2 /\ req.k = 2
    /\ FilledSlots = {}
    /\ out.kind = "result"
    /\ out.best_set_id = ""
    /\ out.low_confidence = TRUE

\* C29: whenever _confidence returns low_conf false, the confidence of the
\* same result is at least 0.30 (300 in 1/1000ths), for every candidate list
\* and every list of per-crop votes.
C29_ConfidentResultsAtLeastThreeTenths ==
    (pc = "done" /\ req.fn = "_confidence" /\ out.low_conf = FALSE) =>
        out.conf >= 300

\* The smallest confident result: top1 exactly 0.28, top2 0.25, so the margin
\* is exactly 0.03 and decides the confidence, 0.30, over the 0.156 of top1.
C29_Witness ==
    /\ pc = "done"
    /\ req.fn = "_confidence"
    /\ Len(req.candidates) = 2
    /\ req.candidates[1].score = 56
    /\ req.candidates[2].score = 50
    /\ out.low_conf = FALSE
    /\ out.conf = 300

====
